---- MODULE Spec2Model ----
(***************************************************************************)
(* State engine of the chatroom server in src/main.py: the message log,   *)
(* the credential store, the session map and the presence/typing maps,    *)
(* with the two locks that guard them.                                     *)
(*                                                                         *)
(* The HTTP server is socketserver.TCPServer (main.py:2235), which serves  *)
(* one request at a time, so there is one request-handling thread          *)
(* ("server").  It runs concurrently with the periodic backup thread and   *)
(* the two sweep threads started in main().  Every action is the stretch   *)
(* of code between two points where the thread can block on a lock.        *)
(*                                                                         *)
(* Strings that the code inspects (identifiers, passwords, message         *)
(* bodies) are sequences of one-character strings.  Times are in abstract  *)
(* clock units; the time-to-live constants are scaled to those units and   *)
(* keep the order of the ones in the source.                               *)
(*                                                                         *)
(* Fields the code stores but never reads back in any decision are left    *)
(* out: an account's "created", a message's "timestamp" and "ip".          *)
(***************************************************************************)
EXTENDS Integers, Sequences, FiniteSets, TLC

\* ------------------------------------------------------------------ bounds
\* Retention cap of the message log (100 in the source), scaled down.
RetentionCap == 2
\* Last value of the clock.
MaxNow == 2
\* Requests the server accepts over a run.
MaxRequests == 4

\* ------------------------------------------------------- program constants
MinUsernameLen == 3
MaxUsernameLen == 20
MinPasswordLen == 4
\* Times to live, in clock units, in the order of the source's values:
\* typing in handle_typing_get (5 s), typing in cleanup_inactive_users (10 s),
\* typing in cleanup_expired_sessions (30 s), presence in
\* cleanup_inactive_users (120 s), presence in cleanup_expired_sessions
\* (300 s), session lifetime (24 h).
TypingGetTTL == 1
TypingSweepTTL == 1
StaleTypingTTL == 1
PresenceTTL == 1
InactiveOnlineTTL == 1
SessionTTL == 1
\* message_data.get('text', '')[:500], in characters of the model's bodies
TextClamp == 3
\* chatroom_messages[-50:] and chatroom_messages[-10:], in messages of the
\* model's log
GistKeep == 1
WebhookKeep == 1

None == "None"
\* a handler's username when get_username_from_session returned None; the
\* handlers test it with "if not username", as they would an empty string
NoUser == <<>>
\* replyTo absent or null in the request (message ids are positive)
NoReply == 0
Free == "free"

\* ------------------------------------------------------------------ inputs
bob == <<"b", "o", "b">>
Bob == <<"B", "o", "b">>
amy == <<"a", "m", "y">>
bo == <<"b", "o">>
Usernames == {bob, Bob, amy, bo}

pw1234 == <<"p", "w", "1", "2", "3", "4">>
pw9999 == <<"p", "w", "9", "9", "9", "9">>
pw == <<"p", "w">>
Passwords == {pw1234, pw9999, pw}

Tokens == {"t1", "t2"}

Texts == {<<" ">>, <<"h", "i">>, <<" ", "h", "i", "!">>}
ReplyTos == {NoReply, 1}
Sinces == {0, 1, RetentionCap}

\* ------------------------------------------------------------ pure helpers
UpperToLower == [c \in {"B"} |-> "b"]

\* str.lower(), one character
LowerChar(c) == IF c \in DOMAIN UpperToLower THEN UpperToLower[c] ELSE c

\* str.lower()
Lower(s) == [i \in 1..Len(s) |-> LowerChar(s[i])]

AlnumChars == {"a", "b", "m", "o", "y", "B", "p", "w", "1", "2", "3", "4", "9", "h", "i"}

IsSpace(c) == c = " "

RECURSIVE LStrip(_)
LStrip(s) == IF s # <<>> /\ IsSpace(Head(s)) THEN LStrip(Tail(s)) ELSE s

RECURSIVE RStrip(_)
RStrip(s) ==
    IF s # <<>> /\ IsSpace(s[Len(s)]) THEN RStrip(SubSeq(s, 1, Len(s) - 1)) ELSE s

\* The text left as it is.
Strip_Identity(s) == s

\* str.strip()
Strip(s) == RStrip(LStrip(s))

\* username.replace('_', '').isalnum()
IsAlnumName(s) ==
    LET t == SelectSeq(s, LAMBDA c : c # "_")
    IN  t # <<>> /\ \A i \in 1..Len(t) : t[i] \in AlnumChars

Salt == <<"chatroom_salt_2024">>

\* A digest that does not depend on the password.
hash_password_Constant(password) == [alg |-> "sha256", preimage |-> Salt]

\* DataPersistence.hash_password: SHA-256 of password + salt, taken as
\* collision free (the digest stands for its preimage).
hash_password(password) == [alg |-> "sha256", preimage |-> password \o Salt]

\* dict.pop(key, None)
Pop(d, k) == [x \in DOMAIN d \ {k} |-> d[x]]

\* d[key] = value
Put(d, k, v) == [x \in DOMAIN d \cup {k} |-> IF x = k THEN v ELSE d[x]]

EmptyMap == [x \in {} |-> None]

\* ------------------------------------------------------------------- state
VARIABLES
    main_pc,            \* main(): "startup" before the restore, then "serving"
    requests,           \* requests accepted by the server so far
    now,                \* datetime.now()
    users_db,           \* username -> [password_hash, last_seen]
    user_sessions,      \* session id -> [username, expires, last_activity]
    online_users,       \* session id -> [username, last_ping]
    typing_users,       \* username -> time of the last typing=true
    chatroom_messages,  \* list of message objects
    next_obj,           \* identity of the next message object allocated
    chatroom_lock,      \* holder of chatroom_lock, or Free
    users_lock,         \* holder of users_lock, or Free
    pc,                 \* position of the request-handling thread
    op,                 \* the request being handled (the last one when idle)
    session_id,         \* its session cookie
    args,               \* its body or query parameters, once read
    username,           \* handler local
    new_id,             \* handle_chat_send local
    current_time,       \* handle_typing_get local
    resp,               \* the response sent for the request
    backup_pc,          \* position of the periodic backup thread
    backup_data,        \* its local snapshot
    registered,         \* history: username -> password given at registration
    restored,           \* history: number of messages the restore loaded
    dead,               \* history: session ids removed from user_sessions
    revoked,            \* history: session id removed by a logout and not issued
                        \* since -> number of logouts it has been given to
    expired_typing      \* history: the flags the last typing listing dropped

stores == <<users_db, user_sessions, online_users, typing_users, chatroom_messages, next_obj>>
locks == <<chatroom_lock, users_lock>>
locals == <<username, new_id, current_time>>
handler == <<pc, op, session_id, args, username, new_id, current_time, resp>>
backup == <<backup_pc, backup_data>>
history == <<registered, restored, dead, revoked, expired_typing>>
vars == <<main_pc, requests, now, stores, locks, handler, backup, history>>

NoResp == [result |-> "pending", body |-> EmptyMap]
Response(result, body) == [result |-> result, body |-> body]

NoSnapshot == [users |-> EmptyMap, messages |-> <<>>]

\* Message object: obj is the identity of the dict (aliases share it).
Message(o, i, u, t, r) == [obj |-> o, id |-> i, username |-> u, text |-> t, replyTo |-> r]

\* max([msg['id'] for msg in chatroom_messages], default=0)
RECURSIVE MaxId(_)
MaxId(msgs) ==
    IF msgs = <<>> THEN 0
    ELSE LET m == MaxId(Tail(msgs))
         IN  IF Head(msgs).id > m THEN Head(msgs).id ELSE m

Init ==
    /\ main_pc = "startup"
    /\ requests = 0
    /\ now = 0
    /\ users_db = EmptyMap
    /\ user_sessions = EmptyMap
    /\ online_users = EmptyMap
    /\ typing_users = EmptyMap
    /\ chatroom_messages = <<>>
    /\ next_obj = 1
    /\ chatroom_lock = Free
    /\ users_lock = Free
    /\ pc = "idle"
    /\ op = None
    /\ session_id = None
    /\ args = EmptyMap
    /\ username = NoUser
    /\ new_id = 0
    /\ current_time = 0
    /\ resp = NoResp
    /\ backup_pc = "sleep"
    /\ backup_data = NoSnapshot
    /\ registered = EmptyMap
    /\ restored = 0
    /\ dead = {}
    /\ revoked = EmptyMap
    /\ expired_typing = {}

\* ----------------------------------------------------------------- startup
\* Snapshots the backend can hold: what an earlier run pushed.  The ids in
\* a blob are those of the last messages of that run's log.
BlobUsers == {EmptyMap, [u \in {amy} |-> pw1234]}
\* a snapshot of two accounts
BlobTwoUsers == {[u \in {amy, bob} |-> pw1234]}
BlobMessages ==
    { <<>>,
      <<[id |-> 7, username |-> amy, text |-> <<"h", "i">>, replyTo |-> NoReply]>> }

\* a snapshot of two messages (a snapshot of the source holds up to 50)
BlobOrdered ==
    { <<[id |-> 7, username |-> amy, text |-> <<"h", "i">>, replyTo |-> NoReply]>>,
      <<[id |-> 7, username |-> amy, text |-> <<"h", "i">>, replyTo |-> NoReply],
        [id |-> 9, username |-> bob, text |-> <<"h", "i", "!">>, replyTo |-> 7]>> }

\* snapshots of any length up to one message more than the cap (the gist is
\* fetched as it is found, whoever wrote it)
BlobAnyLength ==
    { [i \in 1..n |-> [id |-> 7 + i, username |-> amy, text |-> <<"h", "i">>,
                       replyTo |-> NoReply]] : n \in 0..(RetentionCap + 1) }

\* datetime.isoformat() and datetime.fromisoformat(): the text of a time, and
\* the time a text stands for
IsoFormat(t) == [iso |-> t]
FromIsoFormat(text) == text.iso

\* the "users" object of a snapshot, main.py:55-62
SnapshotUsers(db) ==
    [u \in DOMAIN db |-> [password_hash |-> db[u].password_hash,
                          last_seen |-> IsoFormat(db[u].last_seen)]]

\* json.dumps of the snapshot's message list: the fields of each message
JsonMessages(msgs) ==
    [i \in 1..Len(msgs) |-> [id |-> msgs[i].id, username |-> msgs[i].username,
                             text |-> msgs[i].text, replyTo |-> msgs[i].replyTo]]

\* The "users" object in the gist after an earlier run whose accounts had
\* the passwords given by accounts.
GistUsers(accounts) ==
    SnapshotUsers([u \in DOMAIN accounts |->
                      [password_hash |-> hash_password(accounts[u]), last_seen |-> 0]])

\* The renumbering counting from 0.
Renumber_FromZero(msgs) == [i \in 1..Len(msgs) |-> [msgs[i] EXCEPT !.id = i - 1]]

\* for i, msg in enumerate(chatroom_messages): msg['id'] = i + 1
\* (main.py:140-141 and main.py:1938-1939)
Renumber(msgs) == [i \in 1..Len(msgs) |-> [msgs[i] EXCEPT !.id = i]]

\* users_db after the loop of main.py:128-135 over the records named in read
RestoredUsers(json_users, read) ==
    [u \in read |-> [password_hash |-> json_users[u].password_hash,
                     last_seen |-> FromIsoFormat(json_users[u].last_seen)]]

\* The restore keeping the ids stored in the snapshot.
RestoredMessages_KeepIds(json_messages, first_obj) ==
    [i \in 1..Len(json_messages) |->
        Message(first_obj + i - 1, json_messages[i].id, json_messages[i].username,
                json_messages[i].text, json_messages[i].replyTo)]

\* chatroom_messages after main.py:137-141; json.loads made the message
\* objects, first_obj is the identity of the first
RestoredMessages(json_messages, first_obj) ==
    Renumber([i \in 1..Len(json_messages) |->
        Message(first_obj + i - 1, json_messages[i].id, json_messages[i].username,
                json_messages[i].text, json_messages[i].replyTo)])

\* DataPersistence.restore_from_github_gist, the successful path
Restore(blob_users, blob_messages) ==
    /\ main_pc = "startup"
    /\ chatroom_lock = Free /\ users_lock = Free
    /\ \E bu \in blob_users, bm \in blob_messages :
        /\ users_db' = RestoredUsers(GistUsers(bu), DOMAIN bu)
        /\ registered' = bu
        /\ chatroom_messages' = RestoredMessages(bm, next_obj)
        /\ next_obj' = next_obj + Len(bm)
        /\ restored' = Len(bm)
    /\ main_pc' = "serving"
    /\ UNCHANGED <<requests, now, user_sessions, online_users, typing_users, locks, handler, backup,
                   dead, revoked, expired_typing>>

\* restore_from_github_gist returns False before touching the stores
\* (backend not configured, a reply other than 200, or content that is not
\* the JSON of a snapshot)
RestoreNotAvailable ==
    /\ main_pc = "startup"
    /\ main_pc' = "serving"
    /\ UNCHANGED <<requests, now, stores, locks, handler, backup, history>>

\* restore_from_github_gist on a snapshot with a defective account record (a
\* field missing, a date that fromisoformat rejects): the records before it
\* are loaded, the exception leaves the with block and False is returned
\* (main.py:127-135, 146-148).  read is the set of records before the
\* defective one.
RestoreCorrupt(blob_users) ==
    /\ main_pc = "startup"
    /\ chatroom_lock = Free /\ users_lock = Free
    /\ \E bu \in blob_users : \E read \in SUBSET DOMAIN bu :
        /\ read # {} /\ read # DOMAIN bu
        /\ users_db' = RestoredUsers(GistUsers(bu), read)
        /\ registered' = [u \in read |-> bu[u]]
    /\ main_pc' = "serving"
    /\ UNCHANGED <<requests, now, user_sessions, online_users, typing_users, chatroom_messages,
                   next_obj, locks, handler, backup, restored, dead, revoked, expired_typing>>

\* ------------------------------------------------------------------- clock
Tick ==
    /\ main_pc = "serving"
    /\ now < MaxNow
    /\ now' = now + 1
    /\ UNCHANGED <<main_pc, requests, stores, locks, handler, backup, history>>

\* ------------------------------------------------------ credential store
Finish(o, sid, a, r) ==
    /\ pc' = "idle"
    /\ op' = o
    /\ session_id' = sid
    /\ args' = a
    /\ resp' = r
    /\ username' = NoUser
    /\ new_id' = 0
    /\ current_time' = 0

\* The uniqueness check comparing the identifiers as they are.
NameTaken_CaseSensitive(u, db) == u \in DOMAIN db

\* u.lower() in [k.lower() for k in users_db.keys()]
NameTaken(u, db) == \E k \in DOMAIN db : Lower(k) = Lower(u)

\* ChatroomHandler.handle_register
HandleRegister(names, passwords) ==
    /\ main_pc = "serving" /\ pc = "idle"
    /\ requests < MaxRequests
    /\ requests' = requests + 1
    /\ \E raw \in names, password \in passwords :
        LET u == Strip(raw)
            a == [username |-> raw, password |-> password]
        IN
        IF u = <<>> \/ password = <<>> THEN
            /\ Finish("register", None, a, Response("Username and password are required", EmptyMap))
            /\ UNCHANGED <<users_db, registered>>
        ELSE IF Len(u) < MinUsernameLen \/ Len(u) > MaxUsernameLen THEN
            /\ Finish("register", None, a, Response("Username must be 3-20 characters", EmptyMap))
            /\ UNCHANGED <<users_db, registered>>
        ELSE IF ~IsAlnumName(u) THEN
            /\ Finish("register", None, a, Response("Username can only contain letters, numbers, and underscores", EmptyMap))
            /\ UNCHANGED <<users_db, registered>>
        ELSE IF Len(password) < MinPasswordLen THEN
            /\ Finish("register", None, a, Response("Password must be at least 4 characters", EmptyMap))
            /\ UNCHANGED <<users_db, registered>>
        ELSE
            /\ users_lock = Free
            /\ IF NameTaken(u, users_db) THEN
                   /\ Finish("register", None, a, Response("Username already taken", EmptyMap))
                   /\ UNCHANGED <<users_db, registered>>
               ELSE
                   /\ users_db' = Put(users_db, u,
                          [password_hash |-> hash_password(password), last_seen |-> now])
                   /\ registered' = Put(registered, u, password)
                   /\ Finish("register", None, a, Response("ok", EmptyMap))
    /\ UNCHANGED <<main_pc, now, user_sessions, online_users, typing_users,
                   chatroom_messages, next_obj, locks, backup, restored, dead, revoked,
                   expired_typing>>

\* The login that opens a session for a name without an account.
HandleLogin_NoAccountCheck(names, passwords, sids) ==
    /\ main_pc = "serving" /\ pc = "idle"
    /\ requests < MaxRequests
    /\ requests' = requests + 1
    /\ \E raw \in names, password \in passwords :
        LET u == Strip(raw)
            a == [username |-> raw, password |-> password]
        IN
        IF u = <<>> \/ password = <<>> THEN
            /\ Finish("login", None, a, Response("Username and password are required", EmptyMap))
            /\ UNCHANGED <<users_db, user_sessions, revoked>>
        ELSE
            /\ users_lock = Free
            /\ IF u \in DOMAIN users_db /\ hash_password(password) # users_db[u].password_hash THEN
                   /\ Finish("login", None, a, Response("Invalid username or password", EmptyMap))
                   /\ UNCHANGED <<users_db, user_sessions, revoked>>
               ELSE
                   \E sid \in sids :
                       /\ users_db' = IF u \in DOMAIN users_db
                                      THEN [users_db EXCEPT ![u].last_seen = now]
                                      ELSE users_db
                       /\ user_sessions' = Put(user_sessions, sid,
                              [username |-> u, expires |-> now + SessionTTL, last_activity |-> now])
                       /\ revoked' = Pop(revoked, sid)
                       /\ Finish("login", None, a, Response("ok", [session_id |-> sid, username |-> u]))
    /\ UNCHANGED <<main_pc, now, online_users, typing_users, chatroom_messages,
                   next_obj, locks, backup, registered, restored, dead, expired_typing>>

\* ChatroomHandler.handle_login; sids are the values that
\* DataPersistence.generate_session_id can return (32 random bytes: any)
HandleLogin(names, passwords, sids) ==
    /\ main_pc = "serving" /\ pc = "idle"
    /\ requests < MaxRequests
    /\ requests' = requests + 1
    /\ \E raw \in names, password \in passwords :
        LET u == Strip(raw)
            a == [username |-> raw, password |-> password]
        IN
        IF u = <<>> \/ password = <<>> THEN
            /\ Finish("login", None, a, Response("Username and password are required", EmptyMap))
            /\ UNCHANGED <<users_db, user_sessions, revoked>>
        ELSE
            /\ users_lock = Free
            /\ IF u \notin DOMAIN users_db THEN
                   /\ Finish("login", None, a, Response("Invalid username or password", EmptyMap))
                   /\ UNCHANGED <<users_db, user_sessions, revoked>>
               ELSE IF hash_password(password) # users_db[u].password_hash THEN
                   /\ Finish("login", None, a, Response("Invalid username or password", EmptyMap))
                   /\ UNCHANGED <<users_db, user_sessions, revoked>>
               ELSE
                   \E sid \in sids :
                       /\ users_db' = [users_db EXCEPT ![u].last_seen = now]
                       /\ user_sessions' = Put(user_sessions, sid,
                              [username |-> u, expires |-> now + SessionTTL, last_activity |-> now])
                       /\ revoked' = Pop(revoked, sid)
                       /\ Finish("login", None, a, Response("ok", [session_id |-> sid, username |-> u]))
    /\ UNCHANGED <<main_pc, now, online_users, typing_users, chatroom_messages,
                   next_obj, locks, backup, registered, restored, dead, expired_typing>>

\* A logout that rejects a token without a session.
HandleLogout_Validated(cookies) ==
    /\ main_pc = "serving" /\ pc = "idle"
    /\ requests < MaxRequests
    /\ requests' = requests + 1
    /\ \E sid \in cookies :
        IF sid # None /\ sid \in DOMAIN user_sessions THEN
            /\ users_lock = Free
            /\ user_sessions' = Pop(user_sessions, sid)
            /\ online_users' = Pop(online_users, sid)
            /\ dead' = dead \cup {sid}
            /\ revoked' = Put(revoked, sid, 1)
            /\ Finish("logout", sid, EmptyMap, Response("ok", EmptyMap))
        ELSE
            /\ UNCHANGED <<user_sessions, online_users, dead, revoked>>
            /\ Finish("logout", sid, EmptyMap, Response("Not authenticated", EmptyMap))
    /\ UNCHANGED <<main_pc, now, users_db, typing_users, chatroom_messages,
                   next_obj, locks, backup, registered, restored, expired_typing>>

\* ChatroomHandler.handle_logout
HandleLogout(cookies) ==
    /\ main_pc = "serving" /\ pc = "idle"
    /\ requests < MaxRequests
    /\ requests' = requests + 1
    /\ \E sid \in cookies :
        /\ IF sid # None THEN
               /\ users_lock = Free
               /\ user_sessions' = Pop(user_sessions, sid)
               /\ online_users' = Pop(online_users, sid)
               /\ dead' = IF sid \in DOMAIN user_sessions THEN dead \cup {sid} ELSE dead
               /\ revoked' = IF sid \in DOMAIN user_sessions THEN Put(revoked, sid, 1)
                             ELSE IF sid \in DOMAIN revoked
                                  THEN [revoked EXCEPT ![sid] = @ + 1]
                                  ELSE revoked
           ELSE
               UNCHANGED <<user_sessions, online_users, dead, revoked>>
        /\ Finish("logout", sid, EmptyMap, Response("ok", EmptyMap))
    /\ UNCHANGED <<main_pc, now, users_db, typing_users, chatroom_messages,
                   next_obj, locks, backup, registered, restored, expired_typing>>

\* ---------------------------------------------------------------- sessions
AuthOps == {"check", "send", "messages", "online", "typing_post", "typing_get", "heartbeat", "page"}

\* where each handler continues after is_valid_session returned True
EntryPc ==
    [o \in AuthOps |->
        CASE o = "check" -> "check_username"
          [] o = "send" -> "send_username"
          [] o = "messages" -> "poll"
          [] o = "online" -> "online_enter"
          [] o = "typing_post" -> "typing_post_username"
          [] o = "typing_get" -> "typing_get_username"
          [] o = "heartbeat" -> "heartbeat_username"
          [] o = "page" -> "page_update"]

\* what each handler answers when is_valid_session returned False
Rejection ==
    [o \in AuthOps |->
        CASE o = "check" -> Response("ok", [authenticated |-> FALSE, username |-> NoUser])
          [] o = "page" -> Response("redirect", EmptyMap)
          [] OTHER -> Response("Not authenticated", EmptyMap)]

\* A request arrives and the handler calls ChatroomHandler.is_valid_session
IsValidSession(ops, cookies) ==
    /\ main_pc = "serving" /\ pc = "idle"
    /\ requests < MaxRequests
    /\ requests' = requests + 1
    /\ \E o \in ops, sid \in cookies :
        /\ IF sid = None THEN
               /\ Finish(o, sid, EmptyMap, Rejection[o])
               /\ UNCHANGED <<user_sessions, dead>>
           ELSE
               /\ users_lock = Free
               /\ IF sid \notin DOMAIN user_sessions THEN
                      /\ Finish(o, sid, EmptyMap, Rejection[o])
                      /\ UNCHANGED <<user_sessions, dead>>
                  ELSE IF now > user_sessions[sid].expires THEN
                      /\ user_sessions' = Pop(user_sessions, sid)
                      /\ dead' = dead \cup {sid}
                      /\ Finish(o, sid, EmptyMap, Rejection[o])
                  ELSE
                      /\ pc' = EntryPc[o]
                      /\ op' = o
                      /\ session_id' = sid
                      /\ args' = EmptyMap
                      /\ resp' = NoResp
                      /\ UNCHANGED <<locals, user_sessions, dead>>
    /\ UNCHANGED <<main_pc, now, users_db, online_users, typing_users, chatroom_messages,
                   next_obj, locks, backup, registered, restored, revoked, expired_typing>>

\* ---------------------------------------------------------------- ordering
CharCode ==
    [c \in AlnumChars \cup {" ", "_", "!"} |->
        CASE c = " " -> 32 [] c = "!" -> 33
          [] c = "1" -> 49 [] c = "2" -> 50 [] c = "3" -> 51 [] c = "4" -> 52 [] c = "9" -> 57
          [] c = "B" -> 66 [] c = "_" -> 95
          [] c = "a" -> 97 [] c = "b" -> 98 [] c = "h" -> 104 [] c = "i" -> 105
          [] c = "m" -> 109 [] c = "o" -> 111 [] c = "p" -> 112 [] c = "w" -> 119
          [] c = "y" -> 121]

\* a <= b for Python strings
RECURSIVE StrLeq(_, _)
StrLeq(a, b) ==
    IF a = <<>> THEN TRUE
    ELSE IF b = <<>> THEN FALSE
    ELSE IF Head(a) = Head(b) THEN StrLeq(Tail(a), Tail(b))
    ELSE CharCode[Head(a)] < CharCode[Head(b)]

\* sorted(names), names a set of strings
RECURSIVE SortNames(_)
SortNames(names) ==
    IF names = {} THEN <<>>
    ELSE LET least == CHOOSE x \in names : \A y \in names : StrLeq(x, y)
         IN  <<least>> \o SortNames(names \ {least})

\* [{"username": data['username']} for data in online_users.values()] sorted
\* by username.lower(); entries with equal keys come in dict order, which the
\* map does not record.
RECURSIVE OnlineList(_, _)
OnlineList(online, sids) ==
    IF sids = {} THEN <<>>
    ELSE LET first == CHOOSE x \in sids :
                 \A y \in sids : StrLeq(Lower(online[x].username), Lower(online[y].username))
         IN  <<online[first].username>> \o OnlineList(online, sids \ {first})

UsernamePcs == {"check_username", "send_username", "typing_post_username",
                "typing_get_username", "heartbeat_username", "online_locked"}

\* ChatroomHandler.get_username_from_session, and the caller's code up to the
\* next lock it takes.  In handle_online_users the call is made inside
\* "with users_lock" (main.py:1981-1982), and the rest of that block follows.
GetUsernameFromSession ==
    /\ pc \in UsernamePcs
    /\ users_lock = Free
    /\ LET name == IF session_id \in DOMAIN user_sessions
                   THEN user_sessions[session_id].username ELSE NoUser
       IN
       CASE pc = "check_username" ->
                /\ Finish("check", session_id, EmptyMap,
                          Response("ok", [authenticated |-> TRUE, username |-> name]))
                /\ UNCHANGED <<online_users, users_lock>>
         [] pc \in {"send_username", "typing_post_username"} ->
                /\ IF name = NoUser THEN
                       Finish(op, session_id, EmptyMap, Response("Not authenticated", EmptyMap))
                   ELSE
                       /\ pc' = IF pc = "send_username" THEN "send_append" ELSE "typing_set"
                       /\ username' = name
                       /\ UNCHANGED <<op, session_id, args, new_id, current_time, resp>>
                /\ UNCHANGED <<online_users, users_lock>>
         [] pc = "typing_get_username" ->
                /\ pc' = "typing_list"
                /\ username' = name
                /\ current_time' = now
                /\ UNCHANGED <<op, session_id, args, new_id, resp, online_users, users_lock>>
         [] pc = "heartbeat_username" ->
                /\ IF name = NoUser THEN
                       Finish("heartbeat", session_id, EmptyMap, Response("ok", EmptyMap))
                   ELSE
                       /\ pc' = "heartbeat_set"
                       /\ username' = name
                       /\ UNCHANGED <<op, session_id, args, new_id, current_time, resp>>
                /\ UNCHANGED <<online_users, users_lock>>
         [] pc = "online_locked" ->
                LET online == IF name # NoUser
                              THEN Put(online_users, session_id, [username |-> name, last_ping |-> now])
                              ELSE online_users
                IN  /\ online_users' = online
                    /\ users_lock' = Free
                    /\ Finish("online", session_id, EmptyMap,
                              Response("ok", [users |-> OnlineList(online, DOMAIN online)]))
    /\ UNCHANGED <<main_pc, requests, now, users_db, user_sessions, typing_users, chatroom_messages,
                   next_obj, chatroom_lock, backup, history>>

\* handle_online_users enters "with users_lock" (main.py:1981)
OnlineEnter ==
    /\ pc = "online_enter"
    /\ users_lock = Free
    /\ users_lock' = "server"
    /\ pc' = "online_locked"
    /\ UNCHANGED <<main_pc, requests, now, stores, chatroom_lock, op, session_id, args, locals, resp,
                   backup, history>>

\* ------------------------------------------------------------- message log
\* text[:500]
Clamp(text) == SubSeq(text, 1, IF Len(text) < TextClamp THEN Len(text) ELSE TextClamp)

\* The slice held by a backup shares its message objects with the log: the
\* objects still in the log show the ids the log gives them.
Aliased(held, log) ==
    [i \in 1..Len(held) |->
        IF \E j \in 1..Len(log) : log[j].obj = held[i].obj
        THEN log[CHOOSE j \in 1..Len(log) : log[j].obj = held[i].obj]
        ELSE held[i]]

\* The truncation without the renumbering loop.
AppendMessage_NoRenumber(msgs, message) ==
    LET appended == Append(msgs, message)
    IN  IF Len(appended) > RetentionCap THEN Tail(appended) ELSE appended

\* The truncation dropping the newest message instead of the oldest.
AppendMessage_DropNewest(msgs, message) ==
    LET appended == Append(msgs, message)
    IN  IF Len(appended) > RetentionCap
        THEN Renumber(SubSeq(appended, 1, RetentionCap)) ELSE appended

\* chatroom_messages.append(message), then the truncation of main.py:1936-1939
AppendMessage(msgs, message) ==
    LET appended == Append(msgs, message)
    IN  IF Len(appended) > RetentionCap THEN Renumber(Tail(appended)) ELSE appended

\* handle_chat_send from reading the body to the end of "with chatroom_lock"
SendAppend(texts, replies) ==
    /\ pc = "send_append"
    /\ \E raw \in texts, reply_to \in replies :
        LET text == Clamp(raw)
            a == [text |-> raw, replyTo |-> reply_to]
        IN
        IF Strip(text) = <<>> THEN
            /\ Finish("send", session_id, a, Response("Empty message", EmptyMap))
            /\ UNCHANGED <<chatroom_messages, next_obj, backup_data>>
        ELSE
            /\ chatroom_lock = Free
            /\ LET id == MaxId(chatroom_messages) + 1
                   log == AppendMessage(chatroom_messages,
                              Message(next_obj, id, username, Strip(text), reply_to))
               IN
                /\ chatroom_messages' = log
                /\ backup_data' = [backup_data EXCEPT !.messages = Aliased(@, log)]
                /\ new_id' = id
            /\ next_obj' = next_obj + 1
            /\ args' = a
            /\ pc' = "send_typing"
            /\ UNCHANGED <<op, session_id, username, current_time, resp>>
    /\ UNCHANGED <<main_pc, requests, now, users_db, user_sessions, online_users, typing_users,
                   locks, backup_pc, history>>

\* handle_chat_send, main.py:1942-1945
SendClearTyping ==
    /\ pc = "send_typing"
    /\ users_lock = Free
    /\ typing_users' = Pop(typing_users, username)
    /\ Finish("send", session_id, args, Response("ok", [messageId |-> new_id]))
    /\ UNCHANGED <<main_pc, requests, now, users_db, user_sessions, online_users, chatroom_messages,
                   next_obj, locks, backup, history>>

\* The filter with >= in place of >.
Since_Inclusive(msgs, since_id) == SelectSeq(msgs, LAMBDA msg : msg.id >= since_id)

\* [msg for msg in chatroom_messages if msg['id'] > since_id]
Since(msgs, since_id) == SelectSeq(msgs, LAMBDA msg : msg.id > since_id)

\* chatroom_messages[-1]['id'] if chatroom_messages else 0
LastId(msgs) == IF msgs # <<>> THEN msgs[Len(msgs)].id ELSE 0

\* handle_chat_messages after the session check
Poll(sinces) ==
    /\ pc = "poll"
    /\ chatroom_lock = Free
    /\ \E since_id \in sinces :
        Finish("messages", session_id, [since |-> since_id],
               Response("ok", [messages |-> Since(chatroom_messages, since_id),
                               lastId |-> LastId(chatroom_messages),
                               messageCount |-> Len(chatroom_messages)]))
    /\ UNCHANGED <<main_pc, requests, now, stores, locks, backup, history>>

\* ---------------------------------------------------------------- presence
\* handle_typing_post, main.py:2008-2021
TypingSet ==
    /\ pc = "typing_set"
    /\ users_lock = Free
    /\ \E is_typing \in BOOLEAN :
        /\ typing_users' = IF is_typing THEN Put(typing_users, username, now)
                           ELSE Pop(typing_users, username)
        /\ Finish("typing_post", session_id, [typing |-> is_typing], Response("ok", EmptyMap))
    /\ UNCHANGED <<main_pc, requests, now, users_db, user_sessions, online_users, chatroom_messages,
                   next_obj, locks, backup, history>>

\* The filter keeping every entry whatever its age.
Fresh_KeepAll(m, t, ttl) == m

\* keep the entries of a username -> time map not older than ttl at time t
Fresh(m, t, ttl) == [k \in {x \in DOMAIN m : ~(t - m[x] > ttl)} |-> m[k]]

\* handle_typing_get, main.py:2038-2055
TypingList ==
    /\ pc = "typing_list"
    /\ users_lock = Free
    /\ LET kept == Fresh(typing_users, current_time, TypingGetTTL) IN
        /\ typing_users' = kept
        /\ expired_typing' = DOMAIN typing_users \ DOMAIN kept
        /\ Finish("typing_get", session_id, EmptyMap,
                  Response("ok", [typing |-> SortNames(DOMAIN kept \ {username})]))
    /\ UNCHANGED <<main_pc, requests, now, users_db, user_sessions, online_users, chatroom_messages,
                   next_obj, locks, backup, registered, restored, dead, revoked>>

\* The heartbeat writing the whole session record instead of one field of an
\* existing one.
HeartbeatSet_Resurrects ==
    /\ pc = "heartbeat_set"
    /\ users_lock = Free
    /\ online_users' = Put(online_users, session_id, [username |-> username, last_ping |-> now])
    /\ user_sessions' = Put(user_sessions, session_id,
           [username |-> username, expires |-> now + SessionTTL, last_activity |-> now])
    /\ Finish("heartbeat", session_id, EmptyMap, Response("ok", EmptyMap))
    /\ UNCHANGED <<main_pc, requests, now, users_db, typing_users, chatroom_messages, next_obj,
                   locks, backup, history>>

\* handle_heartbeat, main.py:2066-2076
HeartbeatSet ==
    /\ pc = "heartbeat_set"
    /\ users_lock = Free
    /\ online_users' = Put(online_users, session_id, [username |-> username, last_ping |-> now])
    /\ user_sessions' = IF session_id \in DOMAIN user_sessions
                        THEN [user_sessions EXCEPT ![session_id].last_activity = now]
                        ELSE user_sessions
    /\ Finish("heartbeat", session_id, EmptyMap, Response("ok", EmptyMap))
    /\ UNCHANGED <<main_pc, requests, now, users_db, typing_users, chatroom_messages, next_obj,
                   locks, backup, history>>

\* The page load with a sliding expiry: the session's expiry moves with its
\* last activity.
PageUpdate_Extends ==
    /\ pc = "page_update"
    /\ users_lock = Free
    /\ IF session_id \in DOMAIN user_sessions THEN
           /\ user_sessions' = [user_sessions EXCEPT ![session_id].last_activity = now,
                                                     ![session_id].expires = now + SessionTTL]
           /\ online_users' = Put(online_users, session_id,
                  [username |-> user_sessions[session_id].username, last_ping |-> now])
           /\ Finish("page", session_id, EmptyMap, Response("ok", EmptyMap))
       ELSE
           /\ Finish("page", session_id, EmptyMap, Response("KeyError", EmptyMap))
           /\ UNCHANGED <<user_sessions, online_users>>
    /\ UNCHANGED <<main_pc, requests, now, users_db, typing_users, chatroom_messages, next_obj,
                   locks, backup, history>>

\* serve_chatroom, main.py:731-737; user_sessions[session_id] raises KeyError
\* when the session is gone, and the handler ends without a reply
PageUpdate ==
    /\ pc = "page_update"
    /\ users_lock = Free
    /\ IF session_id \in DOMAIN user_sessions THEN
           /\ user_sessions' = [user_sessions EXCEPT ![session_id].last_activity = now]
           /\ online_users' = Put(online_users, session_id,
                  [username |-> user_sessions[session_id].username, last_ping |-> now])
           /\ Finish("page", session_id, EmptyMap, Response("ok", EmptyMap))
       ELSE
           /\ Finish("page", session_id, EmptyMap, Response("KeyError", EmptyMap))
           /\ UNCHANGED <<user_sessions, online_users>>
    /\ UNCHANGED <<main_pc, requests, now, users_db, typing_users, chatroom_messages, next_obj,
                   locks, backup, history>>

\* ------------------------------------------------------------------ status
\* The with statement written "with users_lock, chatroom_lock".
StatusAcquireChat_UsersFirst ==
    /\ main_pc = "serving" /\ pc = "idle"
    /\ requests < MaxRequests
    /\ requests' = requests + 1
    /\ users_lock = Free
    /\ users_lock' = "server"
    /\ pc' = "status_chat"
    /\ op' = "status"
    /\ session_id' = None
    /\ args' = EmptyMap
    /\ resp' = NoResp
    /\ UNCHANGED <<main_pc, now, stores, chatroom_lock, locals, backup, history>>

\* handle_status: "with chatroom_lock, users_lock" takes chatroom_lock first
StatusAcquireChat ==
    /\ main_pc = "serving" /\ pc = "idle"
    /\ requests < MaxRequests
    /\ requests' = requests + 1
    /\ chatroom_lock = Free
    /\ chatroom_lock' = "server"
    /\ pc' = "status_chat"
    /\ op' = "status"
    /\ session_id' = None
    /\ args' = EmptyMap
    /\ resp' = NoResp
    /\ UNCHANGED <<main_pc, now, stores, users_lock, locals, backup, history>>

StatusAcquireUsers ==
    /\ pc = "status_chat"
    /\ users_lock = Free
    /\ users_lock' = "server"
    /\ pc' = "status_both"
    /\ UNCHANGED <<main_pc, requests, now, stores, chatroom_lock, op, session_id, args, locals, resp,
                   backup, history>>

\* main.py:2081-2085 and the reply
StatusRead ==
    /\ pc = "status_both"
    /\ chatroom_lock' = Free
    /\ users_lock' = Free
    /\ Finish("status", None, EmptyMap,
              Response("ok", [total_messages |-> Len(chatroom_messages),
                              total_users |-> Cardinality(DOMAIN users_db),
                              active_sessions |-> Cardinality({x \in DOMAIN user_sessions :
                                                      now < user_sessions[x].expires}),
                              online_users |-> Cardinality(DOMAIN online_users),
                              typing_users |-> Cardinality(DOMAIN typing_users)]))
    /\ UNCHANGED <<main_pc, requests, now, stores, backup, history>>

\* ------------------------------------------------------------------ sweeps
\* keep the presence entries not older than ttl
FreshOnline(m, t, ttl) == [k \in {x \in DOMAIN m : ~(t - m[x].last_ping > ttl)} |-> m[k]]

\* one pass of cleanup_inactive_users
CleanupInactiveUsers ==
    /\ main_pc = "serving"
    /\ users_lock = Free
    /\ online_users' = FreshOnline(online_users, now, PresenceTTL)
    /\ typing_users' = Fresh(typing_users, now, TypingSweepTTL)
    /\ UNCHANGED <<main_pc, requests, now, users_db, user_sessions, chatroom_messages, next_obj,
                   locks, handler, backup, history>>

\* one pass of cleanup_expired_sessions
CleanupExpiredSessions ==
    /\ main_pc = "serving"
    /\ users_lock = Free
    /\ LET expired_sessions == {x \in DOMAIN user_sessions : now > user_sessions[x].expires}
           remaining == [x \in DOMAIN online_users \ expired_sessions |-> online_users[x]]
       IN
        /\ user_sessions' = [x \in DOMAIN user_sessions \ expired_sessions |-> user_sessions[x]]
        /\ online_users' = FreshOnline(remaining, now, InactiveOnlineTTL)
        /\ typing_users' = Fresh(typing_users, now, StaleTypingTTL)
        /\ dead' = dead \cup expired_sessions
    /\ UNCHANGED <<main_pc, requests, now, users_db, chatroom_messages, next_obj, locks, handler,
                   backup, registered, restored, revoked, expired_typing>>

\* ------------------------------------------------------------------ backup
\* msgs[-n:]
LastN(msgs, n) == IF Len(msgs) <= n THEN msgs ELSE SubSeq(msgs, Len(msgs) - n + 1, Len(msgs))

\* backup_data_periodically wakes up and calls backup_to_github_gist, which
\* enters "with chatroom_lock, users_lock", or, when the gist is not
\* configured, backup_to_webhook, which does the same
BackupAcquireChat ==
    /\ main_pc = "serving"
    /\ backup_pc \in {"sleep", "webhook_wait"}
    /\ chatroom_lock = Free
    /\ chatroom_lock' = "backup"
    /\ \E gist_configured \in BOOLEAN :
        backup_pc' = IF gist_configured /\ backup_pc = "sleep"
                     THEN "gist_chat" ELSE "webhook_chat"
    /\ UNCHANGED <<main_pc, requests, now, stores, users_lock, handler, backup_data, history>>

\* users_lock taken inside chatroom_lock, and the snapshot built
BackupAcquireUsers ==
    /\ backup_pc \in {"gist_chat", "webhook_chat"}
    /\ users_lock = Free
    /\ users_lock' = "backup"
    /\ IF backup_pc = "gist_chat" THEN
           /\ backup_data' = [users |-> SnapshotUsers(users_db),
                              messages |-> LastN(chatroom_messages, GistKeep)]
           /\ backup_pc' = "gist_both"
       ELSE
           /\ backup_data' = [users |-> EmptyMap,
                              messages |-> LastN(chatroom_messages, WebhookKeep)]
           /\ backup_pc' = "webhook_both"
    /\ UNCHANGED <<main_pc, requests, now, stores, chatroom_lock, handler, history>>

\* The with block extended over the network call: the locks stay held.
BackupRelease_KeepLocks ==
    /\ backup_pc \in {"gist_both", "webhook_both"}
    /\ backup_pc' = IF backup_pc = "gist_both" THEN "gist_send" ELSE "webhook_send"
    /\ UNCHANGED <<main_pc, requests, now, stores, locks, handler, backup_data, history>>

\* both locks released at the end of the with block
BackupRelease ==
    /\ backup_pc \in {"gist_both", "webhook_both"}
    /\ chatroom_lock' = Free
    /\ users_lock' = Free
    /\ backup_pc' = IF backup_pc = "gist_both" THEN "gist_send" ELSE "webhook_send"
    /\ UNCHANGED <<main_pc, requests, now, stores, handler, backup_data, history>>

\* requests.patch / requests.post returns or raises; after a failed gist
\* backup the webhook is tried
BackupSend ==
    /\ backup_pc \in {"gist_send", "webhook_send"}
    /\ \E ok \in BOOLEAN :
        /\ backup_data' = NoSnapshot
        /\ IF backup_pc = "gist_send" /\ ~ok
           THEN backup_pc' = "webhook_wait"
           ELSE backup_pc' = "sleep"
    /\ UNCHANGED <<main_pc, requests, now, stores, locks, handler, history>>

\* ------------------------------------------------------------ specification
\* The whole engine: every handler and every background thread, one account
\* name and one message body.
Cookies == Tokens \cup {None}

Next ==
    \/ RestoreNotAvailable
    \/ Restore(BlobUsers, BlobMessages)
    \/ Tick
    \/ HandleRegister({bob}, {pw1234})
    \/ HandleLogin({bob}, {pw1234}, Tokens)
    \/ HandleLogout(Cookies)
    \/ IsValidSession(AuthOps, Cookies)
    \/ GetUsernameFromSession
    \/ OnlineEnter
    \/ SendAppend({<<"h", "i">>}, {NoReply})
    \/ SendClearTyping
    \/ Poll({0})
    \/ TypingSet
    \/ TypingList
    \/ HeartbeatSet
    \/ PageUpdate
    \/ StatusAcquireChat
    \/ StatusAcquireUsers
    \/ StatusRead
    \/ CleanupInactiveUsers
    \/ CleanupExpiredSessions
    \/ BackupAcquireChat
    \/ BackupAcquireUsers
    \/ BackupRelease
    \/ BackupSend

Spec == Init /\ [][Next]_vars

\* Scheduling: a thread that can run infinitely often does run, whether it
\* is inside a handler, a backup pass or a sweep; requests need not arrive
\* and the clock need not advance.
ServerStep ==
    \/ GetUsernameFromSession
    \/ OnlineEnter
    \/ SendAppend({<<"h", "i">>}, {NoReply})
    \/ SendClearTyping
    \/ Poll({0})
    \/ TypingSet
    \/ TypingList
    \/ HeartbeatSet
    \/ PageUpdate
    \/ StatusAcquireUsers
    \/ StatusRead

BackupStep == BackupAcquireChat \/ BackupAcquireUsers \/ BackupRelease \/ BackupSend

FairSpec ==
    /\ Spec
    /\ SF_vars(ServerStep)
    /\ SF_vars(BackupStep)
    /\ SF_vars(CleanupInactiveUsers)
    /\ SF_vars(CleanupExpiredSessions)

\* The message log: posting and polling with every body, reply target and
\* bookmark, and everything else that takes chatroom_lock or removes sessions.
NextLog ==
    \/ RestoreNotAvailable
    \/ Restore(BlobUsers, BlobMessages)
    \/ Tick
    \/ HandleRegister({bob}, {pw1234})
    \/ HandleLogin({bob, amy}, {pw1234}, {"t1"})
    \/ HandleLogout({"t1"})
    \/ IsValidSession({"send", "messages"}, {"t1", None})
    \/ GetUsernameFromSession
    \/ SendAppend(Texts, ReplyTos)
    \/ SendClearTyping
    \/ Poll(Sinces)
    \/ CleanupExpiredSessions
    \/ BackupAcquireChat
    \/ BackupAcquireUsers
    \/ BackupRelease
    \/ BackupSend

SpecLog == Init /\ [][NextLog]_vars

\* The credential store and the session map: registration and login with
\* every identifier and password, logout, expiry.
NextAuth ==
    \/ RestoreNotAvailable
    \/ Restore(BlobUsers, BlobMessages)
    \/ Tick
    \/ HandleRegister(Usernames, Passwords)
    \/ HandleLogin(Usernames, Passwords, Tokens)
    \/ HandleLogout(Cookies)
    \/ IsValidSession({"check"}, Cookies)
    \/ GetUsernameFromSession
    \/ CleanupExpiredSessions

SpecAuth == Init /\ [][NextAuth]_vars

\* Presence and typing: two accounts, typing flags set, listed and swept.
NextPresence ==
    \/ RestoreNotAvailable
    \/ Restore(BlobTwoUsers, {<<>>})
    \/ Tick
    \/ HandleLogin({amy, bob}, {pw1234}, Tokens)
    \/ IsValidSession({"typing_post", "typing_get", "heartbeat"}, Tokens)
    \/ GetUsernameFromSession
    \/ TypingSet
    \/ TypingList
    \/ HeartbeatSet
    \/ CleanupInactiveUsers
    \/ CleanupExpiredSessions

SpecPresence == Init /\ [][NextPresence]_vars

\* Typing flags of two accounts, each with a token of its own: "t1" is only
\* ever issued to amy and "t2" to bob.
NextTyping ==
    \/ RestoreNotAvailable
    \/ Restore(BlobTwoUsers, {<<>>})
    \/ Tick
    \/ HandleLogin({amy}, {pw1234}, {"t1"})
    \/ HandleLogin({bob}, {pw1234}, {"t2"})
    \/ IsValidSession({"typing_post", "typing_get"}, Tokens)
    \/ GetUsernameFromSession
    \/ TypingSet
    \/ TypingList
    \/ CleanupInactiveUsers
    \/ CleanupExpiredSessions

SpecTyping == Init /\ [][NextTyping]_vars

\* Startup: every outcome of the restore, then posting and polling.
NextStartup ==
    \/ RestoreNotAvailable
    \/ Restore(BlobTwoUsers, BlobOrdered)
    \/ RestoreCorrupt(BlobTwoUsers)
    \/ Tick
    \/ HandleLogin({amy, bob}, {pw1234}, {"t1"})
    \/ IsValidSession({"send", "messages"}, {"t1"})
    \/ GetUsernameFromSession
    \/ SendAppend({<<"h", "i">>}, {NoReply})
    \/ SendClearTyping
    \/ Poll({0})

SpecStartup == Init /\ [][NextStartup]_vars

\* Startup from a snapshot of any length, then posting and polling.
NextAnyBlob ==
    \/ RestoreNotAvailable
    \/ Restore(BlobTwoUsers, BlobAnyLength)
    \/ Tick
    \/ HandleLogin({amy, bob}, {pw1234}, {"t1"})
    \/ IsValidSession({"send", "messages"}, {"t1"})
    \/ GetUsernameFromSession
    \/ SendAppend({<<"h", "i">>}, {NoReply})
    \/ SendClearTyping
    \/ Poll({0})

SpecAnyBlob == Init /\ [][NextAnyBlob]_vars

\* ----------------------------------------------------------------- claims
\* Successful posts since startup.
Posted == next_obj - 1 - restored

\* The request-handling thread has answered a request of kind o.
Answered(o) == pc = "idle" /\ op = o /\ resp.result # "pending"

\* C1: from an empty log, N <= cap successful posts leave ids exactly 1..N, in
\* arrival order; after cap+1 successful posts since(0) is exactly cap
\* messages with ids 1..cap.
C1_MonotonicIds ==
    restored = 0 =>
        /\ Posted <= RetentionCap =>
              /\ Len(chatroom_messages) = Posted
              /\ \A i \in 1..Posted :
                    chatroom_messages[i].id = i /\ chatroom_messages[i].obj = i
        /\ Posted = RetentionCap + 1 =>
              LET got == Since(chatroom_messages, 0) IN
              /\ Len(got) = RetentionCap
              /\ \A i \in 1..RetentionCap : got[i].id = i

C1_Witness ==
    restored = 0 /\ Posted = RetentionCap + 1 /\ Answered("send") /\ resp.result = "ok"

\* C2: an append that pushes the count above the cap evicts the oldest message;
\* the survivors keep their order and contents and are numbered 1..cap, the
\* new message last.
C2_EvictOldestAndRenumber ==
    [][ (pc = "send_append" /\ pc' = "send_typing"
            /\ Len(chatroom_messages) = RetentionCap)
        => /\ Len(chatroom_messages') = RetentionCap
           /\ \A i \in 1..(RetentionCap - 1) :
                 chatroom_messages'[i] = [chatroom_messages[i + 1] EXCEPT !.id = i]
           /\ chatroom_messages'[RetentionCap].obj = next_obj
           /\ chatroom_messages'[RetentionCap].id = RetentionCap
           /\ chatroom_messages'[RetentionCap].username = username ]_vars

C2_Witness ==
    /\ pc = "send_typing"
    /\ new_id = RetentionCap + 1
    /\ Len(chatroom_messages) = RetentionCap
    /\ chatroom_messages[1].obj = 2

\* C3: the id returned by a successful post is the id the appended message
\* carries in the log.
C3_ReturnedIdIsStoredId ==
    (Answered("send") /\ resp.result = "ok") =>
        \E i \in 1..Len(chatroom_messages) :
            /\ chatroom_messages[i].obj = next_obj - 1
            /\ chatroom_messages[i].id = resp.body.messageId

\* C4: a poll answers exactly the retained messages with id above the
\* bookmark, in log order, with the id of the last retained message (0 for an
\* empty log) and the number of retained messages.
C4_PollResult ==
    (Answered("messages") /\ resp.result = "ok") =>
        LET log == chatroom_messages
            newer == {i \in 1..Len(log) : log[i].id > args.since}
            \* the k-th index of newer, in increasing order
            Nth(k) == CHOOSE i \in newer : Cardinality({j \in newer : j < i}) = k - 1
        IN  /\ Len(resp.body.messages) = Cardinality(newer)
            /\ \A k \in 1..Cardinality(newer) : resp.body.messages[k] = log[Nth(k)]
            /\ resp.body.lastId = (IF Len(log) = 0 THEN 0 ELSE log[Len(log)].id)
            /\ resp.body.messageCount = Len(log)

C4_Witness ==
    /\ Answered("messages") /\ resp.result = "ok"
    /\ Len(resp.body.messages) > 0
    /\ Len(resp.body.messages) < Len(chatroom_messages)

\* C5: no operation suspends indefinitely: a handler that has started answers,
\* a backup pass that has started ends, and a lock that is held is released.
C5_NoIndefiniteSuspension ==
    /\ (pc # "idle") ~> (pc = "idle")
    /\ (backup_pc # "sleep") ~> (backup_pc = "sleep")
    /\ (users_lock # Free) ~> (users_lock = Free)
    /\ (chatroom_lock # Free) ~> (chatroom_lock = Free)

\* A request arrives in this step.
Arrives == pc = "idle" /\ requests' = requests + 1

\* The session exists and has not expired.
LiveSession(t) == t \in DOMAIN user_sessions /\ ~(now > user_sessions[t].expires)

ProtectedOps == {"logout", "send", "messages", "heartbeat", "typing_post", "typing_get", "online"}

\* C6: every operation other than register and login answers "Not
\* authenticated" to a missing, unknown or expired token, and none reports
\* success having done nothing: a heartbeat that answers success has refreshed
\* the presence entry of its session.
C6_NotAuthenticatedNeverSilent ==
    [][ /\ (Arrives /\ op' \in ProtectedOps /\ ~LiveSession(session_id'))
              => resp'.result = "Not authenticated"
        /\ (op = "heartbeat" /\ resp.result = "pending" /\ resp'.result = "ok")
              => /\ session_id \in DOMAIN online_users'
                 /\ online_users'[session_id].last_ping = now ]_vars

SessionOps == {"send", "messages", "heartbeat", "typing_post", "typing_get", "online"}

\* C7: once a session was revoked or removed as expired, no step puts its
\* token back into the live session map, and every later request with it is
\* rejected and appends nothing.
C7_NoResurrection ==
    [][ /\ \A t \in dead : t \notin DOMAIN user_sessions'
        /\ (Arrives /\ op' \in SessionOps /\ session_id' \in dead)
              => /\ resp'.result = "Not authenticated"
                 /\ chatroom_messages' = chatroom_messages ]_vars

\* C7 as amended: a token enters the live session map only by a successful
\* login that generated it; a request with a removed token that no login has
\* issued again is rejected, appends nothing and changes no session.
C7_DeadUntilReissued ==
    [][ /\ \A t \in Tokens :
              (t \notin DOMAIN user_sessions /\ t \in DOMAIN user_sessions')
                  => /\ Arrives
                     /\ op' = "login"
                     /\ resp'.result = "ok"
                     /\ resp'.body.session_id = t
        /\ (Arrives /\ op' \in SessionOps /\ session_id' \in dead
                /\ session_id' \notin DOMAIN user_sessions)
              => /\ resp'.result = "Not authenticated"
                 /\ pc' = "idle"
                 /\ chatroom_messages' = chatroom_messages
                 /\ user_sessions' = user_sessions ]_vars

C7_Witness ==
    /\ pc = "idle" /\ op \in SessionOps
    /\ session_id \in dead
    /\ session_id \notin DOMAIN user_sessions
    /\ resp.result = "Not authenticated"

\* No two stored identifiers are equal ignoring letter case.
NoCaseDuplicates ==
    \A u \in DOMAIN users_db, v \in DOMAIN users_db : Lower(u) = Lower(v) => u = v

\* The identifier of the request matches a stored one in some letter case.
MatchesStored(name) == \E k \in DOMAIN users_db : Lower(k) = Lower(Strip(name))

\* C8: the credential store never holds two identifiers equal ignoring case; a
\* register whose identifier matches a stored one in any letter case fails
\* with the duplicate error and leaves the store unchanged.
C8_DuplicateRejected ==
    /\ []NoCaseDuplicates
    /\ [][ (Arrives /\ op' = "register" /\ MatchesStored(args'.username))
              => /\ resp'.result = "Username already taken"
                 /\ users_db' = users_db ]_vars

\* C8 as amended: such a register always fails and leaves the store
\* unchanged; the error is the duplicate error when the password passes
\* validation (a missing or too short password is reported first).
C8_DuplicateRejectedAfterValidation ==
    /\ []NoCaseDuplicates
    /\ [][ (Arrives /\ op' = "register" /\ MatchesStored(args'.username))
              => /\ resp'.result # "ok"
                 /\ users_db' = users_db
                 /\ Len(args'.password) >= MinPasswordLen
                       => resp'.result = "Username already taken" ]_vars

C8_Witness ==
    /\ Answered("register")
    /\ resp.result = "Username already taken"
    /\ args.username \notin DOMAIN users_db

\* C9: login with a registered identifier and its password succeeds and
\* creates a session bound to that account; login with a wrong password or an
\* identifier that matches no account fails, creates no session and leaves
\* the account records unchanged.
C9_LoginChecksPassword ==
    [][ (Arrives /\ op' = "login")
        => LET name == args'.username
               password == args'.password
           IN  /\ (name \in DOMAIN registered /\ registered[name] = password)
                     => /\ resp'.result = "ok"
                        /\ resp'.body.session_id \in DOMAIN user_sessions'
                        /\ user_sessions'[resp'.body.session_id].username = name
               /\ (\A k \in DOMAIN registered :
                        Lower(k) = Lower(name) => registered[k] # password)
                     => /\ resp'.result # "ok"
                        /\ user_sessions' = user_sessions
                        /\ users_db' = users_db ]_vars

C9_Witness ==
    /\ Answered("login") /\ resp.result = "ok"
    /\ resp.body.session_id \in DOMAIN user_sessions
    /\ user_sessions[resp.body.session_id].username = args.username
    /\ registered[args.username] = args.password
    /\ Cardinality(DOMAIN registered) > 1

\* C10: login with the right password and an identifier that differs from the
\* registered one only in letter case authenticates the registered account.
C10_CaseInsensitiveLogin ==
    [][ (Arrives /\ op' = "login"
            /\ \E k \in DOMAIN registered :
                  Lower(k) = Lower(args'.username) /\ registered[k] = args'.password)
        => /\ resp'.result = "ok"
           /\ Lower(user_sessions'[resp'.body.session_id].username) = Lower(args'.username) ]_vars

\* C11: two different accounts registered with the same password have
\* different stored password hashes.
C11_DistinctHashesForSamePassword ==
    \A u \in DOMAIN users_db, v \in DOMAIN users_db :
        (u # v /\ u \in DOMAIN registered /\ v \in DOMAIN registered
               /\ registered[u] = registered[v])
            => users_db[u].password_hash # users_db[v].password_hash

\* C12: a logout with a token that an earlier logout revoked finds no
\* session, answers success and leaves sessions, presence, typing, accounts
\* and messages as they were.
C12_LogoutIdempotent ==
    [][ (Arrives /\ op' = "logout" /\ session_id' \in DOMAIN revoked)
        => /\ session_id' \notin DOMAIN user_sessions
           /\ resp'.result = "ok"
           /\ user_sessions' = user_sessions
           /\ online_users' = online_users
           /\ typing_users' = typing_users
           /\ users_db' = users_db
           /\ chatroom_messages' = chatroom_messages ]_vars

C12_Witness ==
    /\ Answered("logout") /\ resp.result = "ok"
    /\ session_id \in DOMAIN revoked
    /\ revoked[session_id] = 2

\* The presence entry of session t has had no refresh for longer than the
\* presence time to live.
StalePresence(t) ==
    t \in DOMAIN online_users /\ now - online_users[t].last_ping > PresenceTTL

\* C13: a presence entry that has had no refresh for longer than the presence
\* time to live is eventually removed by the presence sweep (or refreshed).
C13_StalePresenceSwept ==
    \A t \in Tokens : StalePresence(t) ~> ~StalePresence(t)

\* The typing flag of u was set longer ago than the typing sweep's time to
\* live, at time t.
StaleTyping(u, t) == u \in DOMAIN typing_users /\ t - typing_users[u] > TypingSweepTTL

\* C14: a typing flag older than the sweep's time to live when a typing
\* listing reads the clock is not in the list it returns and is removed from
\* the typing map by that listing; a pass of the presence sweep removes every
\* such flag too.
C14_StaleTypingHidden ==
    [][ /\ (pc = "typing_list" /\ pc' = "idle")
            => \A u \in DOMAIN typing_users :
                  StaleTyping(u, current_time)
                      => /\ u \notin DOMAIN typing_users'
                         /\ \A i \in 1..Len(resp'.body.typing) : resp'.body.typing[i] # u
        /\ CleanupInactiveUsers
            => \A u \in DOMAIN typing_users :
                  StaleTyping(u, now) => u \notin DOMAIN typing_users' ]_vars

C14_Witness ==
    /\ Answered("typing_get") /\ resp.result = "ok"
    /\ session_id \in DOMAIN user_sessions
    /\ \E u \in expired_typing :
          /\ u # user_sessions[session_id].username
          /\ u \notin DOMAIN typing_users
          /\ \A i \in 1..Len(resp.body.typing) : resp.body.typing[i] # u

\* The accounts that own at least one presence entry.
OnlineAccounts == {online_users[t].username : t \in DOMAIN online_users}

\* C15: a listing of the online accounts asked with a valid session is
\* answered, with every account that owns a presence entry once, no other
\* account, sorted by name.
C15_ListOnlineReturnsAccounts ==
    (op = "online" /\ pc = "online_enter")
        ~> (Answered("online") /\ resp.result = "ok"
                /\ resp.body.users = SortNames(OnlineAccounts))

\* positions of the request-handling thread inside the two listing handlers
ListingPcs == {"online_enter", "online_locked", "typing_get_username", "typing_list"}

\* C16: no step of a listing of the online accounts or of the typing accounts
\* changes the presence map or the typing map.
C16_ListingReadOnly ==
    [][ (pc \in ListingPcs /\ pc' # pc)
        => /\ online_users' = online_users
           /\ typing_users' = typing_users ]_vars

\* C17: a poll with the bookmark at the cap is answered with no message,
\* although an append to a full log stores a new message: the append leaves
\* every retained id at or below the cap, the new message carrying the cap.
C17_BookmarkHazard ==
    /\ []((Answered("messages") /\ resp.result = "ok" /\ args.since = RetentionCap)
             => resp.body.messages = <<>>)
    /\ [][ (pc = "send_append" /\ pc' = "send_typing"
               /\ Len(chatroom_messages) = RetentionCap)
           => /\ \A i \in 1..Len(chatroom_messages') :
                    chatroom_messages'[i].id <= RetentionCap
              /\ \E i \in 1..Len(chatroom_messages') :
                    /\ chatroom_messages'[i].obj = next_obj
                    /\ chatroom_messages'[i].id = RetentionCap ]_vars

C17_Witness ==
    /\ Answered("messages") /\ resp.result = "ok"
    /\ args.since = RetentionCap
    /\ resp.body.messages = <<>>
    /\ Len(chatroom_messages) = RetentionCap
    /\ chatroom_messages[RetentionCap].obj > RetentionCap
    /\ chatroom_messages[RetentionCap].obj = next_obj - 1
    /\ chatroom_messages[RetentionCap].id = RetentionCap

\* C18: when the restore at startup fails, the credential store and the
\* message log are left empty and serving proceeds.
C18_FailedRestoreStartsEmpty ==
    [][ (main_pc = "startup" /\ (RestoreNotAvailable \/ RestoreCorrupt(BlobTwoUsers)))
        => /\ main_pc' = "serving"
           /\ users_db' = EmptyMap
           /\ chatroom_messages' = <<>> ]_vars

\* C19: a successful restore leaves in the credential store exactly the
\* accounts of the snapshot, with their hashes, and in the message log exactly
\* the snapshot's messages in order, numbered 1..N whatever ids the snapshot
\* held; the first append after it computes id N+1, and below the cap the
\* message is stored with that id.
C19_RestoreReplacesAndRenumbers ==
    /\ [][ (main_pc = "startup" /\ Restore(BlobTwoUsers, BlobOrdered))
           => \E bu \in BlobTwoUsers, bm \in BlobOrdered :
                 /\ DOMAIN users_db' = DOMAIN bu
                 /\ \A u \in DOMAIN bu :
                       users_db'[u].password_hash = hash_password(bu[u])
                 /\ Len(chatroom_messages') = Len(bm)
                 /\ \A i \in 1..Len(bm) :
                       /\ chatroom_messages'[i].id = i
                       /\ chatroom_messages'[i].username = bm[i].username
                       /\ chatroom_messages'[i].text = bm[i].text
                       /\ chatroom_messages'[i].replyTo = bm[i].replyTo ]_vars
    /\ [][ (pc = "send_append" /\ pc' = "send_typing" /\ Posted = 0)
           => /\ new_id' = restored + 1
              /\ restored < RetentionCap
                    => /\ Len(chatroom_messages') = restored + 1
                       /\ chatroom_messages'[restored + 1].id = restored + 1
                       /\ chatroom_messages'[restored + 1].obj = next_obj ]_vars

C19_Witness ==
    /\ pc = "send_typing"
    /\ restored > 0 /\ restored < RetentionCap
    /\ Posted = 1
    /\ new_id = restored + 1
    /\ chatroom_messages[1].id = 1
    /\ chatroom_messages[restored + 1].id = restored + 1
    /\ DOMAIN users_db = {amy, bob}

\* What a restore would load from the snapshot the backup thread holds.
RoundTripUsers == RestoredUsers(backup_data.users, DOMAIN backup_data.users)
RoundTripMessages == RestoredMessages(JsonMessages(backup_data.messages), 1)

\* C20: restoring from the snapshot just taken, the stores being held still by
\* both locks, gives the accounts of the credential store and the messages of
\* the log, with their authors and bodies, in order.
C20_SnapshotRestoreRoundTrip ==
    backup_pc = "gist_both" =>
        /\ RoundTripUsers = users_db
        /\ Len(RoundTripMessages) = Len(chatroom_messages)
        /\ \A i \in 1..Len(chatroom_messages) :
              i <= Len(RoundTripMessages) =>
                  /\ RoundTripMessages[i].username = chatroom_messages[i].username
                  /\ RoundTripMessages[i].text = chatroom_messages[i].text

\* The text is empty or has only whitespace.
Blank(text) == \A i \in 1..Len(text) : IsSpace(text[i])

\* C21: a post whose body is blank is answered with the validation error and
\* leaves the log unchanged; every message stored by a post has a body that
\* is not empty, neither starts nor ends with whitespace and is not longer
\* than the clamp.
C21_PostBodyValidated ==
    /\ [][ (pc = "send_append" /\ pc' # pc /\ Blank(args'.text))
           => /\ resp'.result = "Empty message"
              /\ chatroom_messages' = chatroom_messages ]_vars
    /\ [](\A i \in 1..Len(chatroom_messages) :
             chatroom_messages[i].obj > restored
                 => LET text == chatroom_messages[i].text
                    IN  /\ text # <<>>
                        /\ ~IsSpace(text[1])
                        /\ ~IsSpace(text[Len(text)])
                        /\ Len(text) <= TextClamp)

C21_Witness ==
    /\ Answered("send") /\ resp.result = "Empty message"
    /\ args.text = <<" ">>
    /\ \E i \in 1..Len(chatroom_messages) :
          /\ chatroom_messages[i].obj > restored
          /\ chatroom_messages[i].text = <<"h", "i">>

\* C22: every presence entry is keyed by a token of the live session map.
C22_PresenceRefersToLiveSession ==
    DOMAIN online_users \subseteq DOMAIN user_sessions

\* C23: the snapshot a backup took under the locks is the one it sends:
\* between the release of the locks and the network call, the users and the
\* messages (ids and contents) it holds do not change.
C23_SnapshotIsPointInTime ==
    [][ (backup_pc \in {"gist_send", "webhook_send"} /\ backup_pc' = backup_pc)
        => backup_data' = backup_data ]_vars

\* The position in the log of the message object o.
Position(log, o) == CHOOSE i \in 1..Len(log) : log[i].obj = o

\* C24: reply references survive every change of the log: when a retained
\* message's replyTo designates a message of the log, then after the step,
\* if the replying message is still retained, any message its replyTo
\* designates is that same message.
C24_ReplyRefsSurviveRenumbering ==
    [][ \A i \in 1..Len(chatroom_messages) :
        \A j \in 1..Len(chatroom_messages) :
           ( /\ chatroom_messages[i].replyTo # NoReply
             /\ chatroom_messages[j].id = chatroom_messages[i].replyTo
             /\ \E k \in 1..Len(chatroom_messages') :
                   chatroom_messages'[k].obj = chatroom_messages[i].obj )
           => LET after == chatroom_messages'
                  k == Position(after, chatroom_messages[i].obj)
              IN  \A t \in 1..Len(after) :
                     after[t].id = after[k].replyTo
                         => after[t].obj = chatroom_messages[j].obj ]_vars

\* C25: a page load whose session was removed between the validation and the
\* update ends without an unhandled error.
C25_PageLoadSurvivesSweep ==
    Answered("page") => resp.result # "KeyError"

\* C26: whenever the message-log lock is not held by the request handler's
\* append, the ids of the retained messages are exactly 1..N in log order,
\* also after a startup restore and after truncations.
C26_DenseIds ==
    \A i \in 1..Len(chatroom_messages) : chatroom_messages[i].id = i

C26_Witness ==
    /\ restored = 1 /\ Posted = RetentionCap
    /\ Len(chatroom_messages) = RetentionCap
    /\ Answered("send") /\ resp.result = "ok"
    /\ chatroom_lock = Free

\* C27: the log never holds more than the cap of messages, whether it was
\* filled by posts or by a startup restore from whatever snapshot was found.
C27_LogWithinCap ==
    Len(chatroom_messages) <= RetentionCap

\* C28: no thread holds the message-log lock and the user-state lock at the
\* same time.
C28_LocksNeverNested ==
    \A th \in {"server", "backup"} :
        ~(chatroom_lock = th /\ users_lock = th)

\* C29: no call to the backend is made by a thread that holds a lock: the
\* backup thread holds neither lock when its PATCH or POST is made, and the
\* startup GET is made with both locks free.
C29_NoNetworkUnderLock ==
    [][ /\ (backup_pc \in {"gist_send", "webhook_send"} /\ backup_pc' # backup_pc)
           => (chatroom_lock # "backup" /\ users_lock # "backup")
        /\ (main_pc = "startup" /\ main_pc' # main_pc)
           => (chatroom_lock = Free /\ users_lock = Free) ]_vars

C29_Witness ==
    /\ backup_pc = "gist_send"
    /\ backup_data.users # EmptyMap
    /\ pc = "status_both" /\ chatroom_lock = "server" /\ users_lock = "server"

\* The threads that take locks while the server runs.
Threads == {"server", "backup"}

\* The thread is inside a "with chatroom_lock, users_lock" block.
InBothLocksBlock(th) ==
    IF th = "server" THEN pc \in {"status_chat", "status_both"}
    ELSE backup_pc \in {"gist_chat", "webhook_chat", "gist_both", "webhook_both"}

\* The next thing the thread does is to acquire chatroom_lock / users_lock.
RequestsChatLock(th) ==
    IF th = "server" THEN pc \in {"send_append", "poll"}
    ELSE backup_pc \in {"sleep", "webhook_wait"}

RequestsUsersLock(th) ==
    IF th = "server" THEN pc = "status_chat"
    ELSE backup_pc \in {"gist_chat", "webhook_chat"}

\* C30: the locks are acquired in one order: a thread inside a two-lock block
\* that holds users_lock holds chatroom_lock too (it took chatroom_lock
\* first), no thread acquires or requests chatroom_lock while it holds
\* users_lock, and no two threads each wait for the lock the other holds.
C30_LockOrderAcyclic ==
    /\ [](\A th \in Threads :
             users_lock = th
                 => /\ InBothLocksBlock(th) => chatroom_lock = th
                    /\ ~RequestsChatLock(th))
    /\ [][ \A th \in Threads :
              (chatroom_lock # th /\ chatroom_lock' = th) => users_lock # th ]_vars
    /\ [](\A a \in Threads : \A b \in Threads \ {a} :
             ~( /\ chatroom_lock = a /\ RequestsUsersLock(a)
                /\ users_lock = b /\ RequestsChatLock(b) ))

C30_Witness ==
    /\ backup_pc = "gist_both"
    /\ chatroom_lock = "backup" /\ users_lock = "backup"
    /\ pc = "send_append"

\* A login request is answered in this step.
LoginStep == pc = "idle" /\ requests' = requests + 1 /\ op' = "login"

\* C31: a login never overwrites a live session: every session that is in
\* the map before the login is in it afterwards with the same owner and the
\* same expiry.
C31_LoginNeverOverwrites ==
    [][ LoginStep
        => \A t \in DOMAIN user_sessions :
              /\ t \in DOMAIN user_sessions'
              /\ user_sessions'[t].username = user_sessions[t].username
              /\ user_sessions'[t].expires = user_sessions[t].expires ]_vars

\* The session of token t is in the live map past its expiry.
ExpiredSession(t) == t \in DOMAIN user_sessions /\ now > user_sessions[t].expires

\* C32: a validation of a token whose session is past its expiry answers as
\* for no session and removes the session from the live map; and a session
\* past its expiry is eventually removed from the live map, validated or not
\* (or its token is issued again to a new session).
C32_ExpiredSessionsRemoved ==
    /\ [][ \A t \in Tokens :
              (Arrives /\ op' \in AuthOps /\ session_id' = t /\ ExpiredSession(t))
                  => /\ resp' = Rejection[op']
                     /\ t \notin DOMAIN user_sessions' ]_vars
    /\ \A t \in Tokens : ExpiredSession(t) ~> ~ExpiredSession(t)

\* C33: a session's expiry is its creation time plus the session time to
\* live, and no step other than a login changes the expiry or the owner of a
\* session that stays in the map: heartbeats, page loads and every other
\* operation change at most its last-activity time.
C33_ExpiryFixedAtCreation ==
    /\ [][ LoginStep
           => \A t \in DOMAIN user_sessions' :
                 (t \notin DOMAIN user_sessions \/ user_sessions'[t] # user_sessions[t])
                     => user_sessions'[t].expires = now + SessionTTL ]_vars
    /\ [][ ~LoginStep
           => \A t \in DOMAIN user_sessions \cap DOMAIN user_sessions' :
                 /\ user_sessions'[t].expires = user_sessions[t].expires
                 /\ user_sessions'[t].username = user_sessions[t].username ]_vars

C33_Witness ==
    /\ Answered("page") /\ resp.result = "ok"
    /\ session_id \in DOMAIN user_sessions
    /\ user_sessions[session_id].last_activity = now
    /\ user_sessions[session_id].expires = now

\* The account a token is issued to in SpecTyping.
Caller(t) == IF t = "t1" THEN amy ELSE bob

\* The list holds the names of the set, each once, in sorted order.
SortedListOf(list, names) ==
    /\ Len(list) = Cardinality(names)
    /\ {list[i] : i \in 1..Len(list)} = names
    /\ \A i \in 1..Len(list) : \A j \in i..Len(list) : StrLeq(list[i], list[j])

\* C34: a typing listing returns, sorted, the accounts whose typing flag is
\* not older than the listing's time to live when the listing reads the
\* clock, without the calling account; a typing post with true records the
\* caller's flag at the current time and one with false removes the caller's
\* flag, and neither touches another account's flag.
C34_TypingOperations ==
    [][ /\ (pc = "typing_list" /\ pc' = "idle")
            => SortedListOf(resp'.body.typing,
                   {u \in DOMAIN typing_users :
                        ~(current_time - typing_users[u] > TypingGetTTL)}
                       \ {Caller(session_id)})
        /\ (pc = "typing_set" /\ pc' = "idle")
            => /\ \A u \in (DOMAIN typing_users \cup DOMAIN typing_users')
                           \ {Caller(session_id)} :
                     /\ u \in DOMAIN typing_users /\ u \in DOMAIN typing_users'
                     /\ typing_users'[u] = typing_users[u]
               /\ IF args'.typing
                  THEN /\ Caller(session_id) \in DOMAIN typing_users'
                       /\ typing_users'[Caller(session_id)] = now
                  ELSE Caller(session_id) \notin DOMAIN typing_users' ]_vars

\* C35: every live session is owned by an account of the credential store.
C35_SessionOwnerHasAccount ==
    \A t \in DOMAIN user_sessions : user_sessions[t].username \in DOMAIN users_db

C35_Witness ==
    /\ dead # {}
    /\ \E t1 \in DOMAIN user_sessions, t2 \in DOMAIN user_sessions :
          /\ user_sessions[t1].username = amy
          /\ user_sessions[t2].username = bob

====
